---- MODULE Spec2Model ----
(***************************************************************************)
(* livemeet: a socket.io signalling relay (the Room Directory) and the     *)
(* React client (Video.js) that builds one simple-peer connection per      *)
(* remote participant.                                                     *)
(*                                                                         *)
(* Relay : src/unnamed/part_000 (the variant that keeps the `rooms` map)   *)
(*         and src/backend/server.js, lines 96-142 (the variant without).  *)
(* Client: src/frontend/src/components/Video.js, first component           *)
(*         (lines 32-794).                                                 *)
(*                                                                         *)
(* Specifications: SpecDir (any socket driving the relay), Spec (two       *)
(* participants joining and negotiating), SpecReconnect (joining and       *)
(* reconnecting), SpecMesh (joining through the relay of server.js, with   *)
(* fairness), SpecShare (screen sharing), SpecClient (the handlers of one  *)
(* client under any order of socket events).                               *)
(*                                                                         *)
(* Socket ids are the numbers 1..MaxSockets, handed out in connection      *)
(* order and never reused.  Room names are the numbers of RoomIds; they    *)
(* stand for non-numeric strings, so the `rooms` object enumerates them in *)
(* insertion order, which the model keeps as a sequence.                   *)
(***************************************************************************)
EXTENDS Integers, Sequences, FiniteSets, TLC

\* ---------------------------------------------------------------- bounds
MaxSockets == 6
MaxInbox == 2
MaxDirSockets == 2
MaxCastSockets == 3
MaxPeers == 3
MaxCand == 1
MaxEnvCand == 2
MaxQueue == 2
MaxApplied == 3

SocketIds == 1..MaxSockets
RoomIds == {101, 102}
SigKinds == {"offer", "answer", "ice-candidate"}
Clients == {"A", "B"}
Room == 101
\* the empty room id a join-room can carry
NoRoom == 0
PeerIds == 1..MaxPeers

VARIABLES
    nextSock,   \* next socket id the transport hands out
    connected,  \* socket ids with a live connection to the relay
    adapter,    \* socket.io room membership: socket id -> rooms joined with socket.join
    rooms,      \* the `rooms` object: sequence of [id, members] in insertion order
    inbox,      \* events emitted to a socket and not yet handled by it
    joined,     \* history: room -> sockets that sent join-room for it and are still connected
    cl          \* client -> the state of its Video component

dirVars == <<nextSock, connected, adapter, rooms, inbox, joined>>
vars == <<dirVars, cl>>

\* ------------------------------------------------------------- sequences
RECURSIVE SeqRemove(_, _)
SeqRemove(s, x) ==
    IF s = <<>> THEN <<>>
    ELSE IF Head(s) = x THEN SeqRemove(Tail(s), x)
    ELSE <<Head(s)>> \o SeqRemove(Tail(s), x)

SeqSet(s) == {s[i] : i \in 1..Len(s)}

\* -------------------------------------------------- relay (part_000)
\* The relay state as one value, so that a client step which makes several
\* emits can thread it through several handlers.
DirState == [rooms |-> rooms, adapter |-> adapter, inbox |-> inbox, connected |-> connected]

RoomIndex(rs, roomId) ==
    IF \E i \in 1..Len(rs) : rs[i].id = roomId
    THEN CHOOSE i \in 1..Len(rs) : rs[i].id = roomId
    ELSE 0

\* rooms[roomId] as a set; a missing key is the empty set
Members(rs, roomId) ==
    IF RoomIndex(rs, roomId) = 0 THEN {} ELSE SeqSet(rs[RoomIndex(rs, roomId)].members)

\* the sockets an emit to room `to` reaches: every socket is in the room named
\* by its own id, and in the rooms it joined
InRoom(d, to) ==
    {x \in d.connected : x = to \/ to \in d.adapter[x]}

Emit(inb, targets, msg) ==
    [x \in SocketIds |-> IF x \in targets THEN Append(inb[x], msg) ELSE inb[x]]

RECURSIVE EmitAll(_, _, _)
EmitAll(inb, target, msgs) ==
    IF msgs = <<>> THEN inb
    ELSE EmitAll(Emit(inb, {target}, Head(msgs)), target, Tail(msgs))

RECURSIVE UserJoinedMsgs(_, _)
UserJoinedMsgs(members, userId) ==
    IF members = <<>> THEN <<>>
    ELSE (IF Head(members) # userId
          THEN <<[ev |-> "user-joined", id |-> Head(members), data |-> <<>>]>>
          ELSE <<>>) \o UserJoinedMsgs(Tail(members), userId)

\* a join-room that keeps the members in a list and pushes the id on every call
OnJoinRoomAppending(d, s, roomId, userId) ==
    LET ad == [d.adapter EXCEPT ![s] = @ \cup {roomId}]
        i == RoomIndex(d.rooms, roomId)
        rs0 == IF i = 0 THEN Append(d.rooms, [id |-> roomId, members |-> <<>>]) ELSE d.rooms
        j == RoomIndex(rs0, roomId)
        rs1 == [rs0 EXCEPT ![j].members = Append(@, userId)]
        d1 == [d EXCEPT !.adapter = ad, !.rooms = rs1]
        inb1 == Emit(d.inbox, InRoom(d1, roomId) \ {s}, [ev |-> "user-joined", id |-> userId, data |-> <<>>])
        inb2 == EmitAll(inb1, s, UserJoinedMsgs(rs1[j].members, userId))
    IN [d1 EXCEPT !.inbox = inb2]

\* socket.on('join-room', (roomId, userId) => ...)
OnJoinRoom(d, s, roomId, userId) ==
    LET ad == [d.adapter EXCEPT ![s] = @ \cup {roomId}]
        i == RoomIndex(d.rooms, roomId)
        rs0 == IF i = 0 THEN Append(d.rooms, [id |-> roomId, members |-> <<>>]) ELSE d.rooms
        j == RoomIndex(rs0, roomId)
        rs1 == [rs0 EXCEPT ![j].members =
                   IF userId \in SeqSet(@) THEN @ ELSE Append(@, userId)]
        d1 == [d EXCEPT !.adapter = ad, !.rooms = rs1]
        inb1 == Emit(d.inbox, InRoom(d1, roomId) \ {s}, [ev |-> "user-joined", id |-> userId, data |-> <<>>])
        inb2 == EmitAll(inb1, s, UserJoinedMsgs(rs1[j].members, userId))
    IN [d1 EXCEPT !.inbox = inb2]

\* socket.on('offer' | 'answer' | 'ice-candidate', (data) => socket.to(data.to).emit(...))
OnSignal(d, s, kind, to, payload) ==
    [d EXCEPT !.inbox = Emit(@, InRoom(d, to) \ {s}, [ev |-> kind, id |-> s, data |-> <<payload>>])]

RECURSIVE FirstRoomWith(_, _, _)
FirstRoomWith(rs, i, s) ==
    IF i > Len(rs) THEN 0
    ELSE IF s \in SeqSet(rs[i].members) THEN i
    ELSE FirstRoomWith(rs, i + 1, s)

DropRoom(rs, i) == SubSeq(rs, 1, i - 1) \o SubSeq(rs, i + 1, Len(rs))

\* socket.on('disconnect', ...): the socket has already left its socket.io rooms
OnDisconnect(d, s) ==
    LET d0 == [d EXCEPT !.connected = @ \ {s}, !.adapter[s] = {}, !.inbox[s] = <<>>]
        i == FirstRoomWith(d0.rooms, 1, s)
    IN IF i = 0 THEN d0
       ELSE LET roomId == d0.rooms[i].id
                rs1 == [d0.rooms EXCEPT ![i].members = SeqRemove(@, s)]
                inb == Emit(d0.inbox, InRoom(d0, roomId) \ {s}, [ev |-> "user-left", id |-> s, data |-> <<>>])
                rs2 == IF rs1[i].members = <<>> THEN DropRoom(rs1, i) ELSE rs1
            IN [d0 EXCEPT !.rooms = rs2, !.inbox = inb]

\* -------------------------------------- relay (backend/server.js, 98-141)
\* The variant without the `rooms` map: join-room announces the joiner to the
\* room and sends nothing back; disconnect is announced to every other socket.
OnJoinRoomB(d, s, roomId, userId) ==
    IF roomId = NoRoom \/ userId = 0 THEN d
    ELSE LET d1 == [d EXCEPT !.adapter[s] = @ \cup {roomId}]
         IN [d1 EXCEPT !.inbox = Emit(@, InRoom(d1, roomId) \ {s},
                                      [ev |-> "user-joined", id |-> userId, data |-> <<>>])]

\* a handler that takes the sender from the payload when the payload names one
OnSignalBTrusting(d, s, kind, to, payload) ==
    IF payload.type = "none" THEN d
    ELSE [d EXCEPT !.inbox = Emit(@, InRoom(d, to) \ {s},
                                  [ev |-> kind,
                                   id |-> IF "from" \in DOMAIN payload THEN payload.from ELSE s,
                                   data |-> <<payload>>])]

\* socket.on('offer' | 'answer' | 'ice-candidate', ...) of server.js: data
\* without a signal (payload of type "none") is ignored
OnSignalB(d, s, kind, to, payload) ==
    IF payload.type = "none" THEN d
    ELSE [d EXCEPT !.inbox = Emit(@, InRoom(d, to) \ {s},
                                  [ev |-> kind, id |-> s, data |-> <<payload>>])]

OnDisconnectB(d, s) ==
    LET d0 == [d EXCEPT !.connected = @ \ {s}, !.adapter[s] = {}, !.inbox[s] = <<>>]
    IN [d0 EXCEPT !.inbox = Emit(@, d0.connected, [ev |-> "user-left", id |-> s, data |-> <<>>])]

\* the relay a client talks to: "directory" is part_000, "broadcast" server.js
RelayJoin(v, d, s, roomId, userId) ==
    IF v = "directory" THEN OnJoinRoom(d, s, roomId, userId) ELSE OnJoinRoomB(d, s, roomId, userId)

RelayDisconnect(v, d, s) ==
    IF v = "directory" THEN OnDisconnect(d, s) ELSE OnDisconnectB(d, s)

SetDir(d) ==
    /\ rooms' = d.rooms
    /\ adapter' = d.adapter
    /\ inbox' = d.inbox
    /\ connected' = d.connected

InboxRoom(d) == \A x \in SocketIds : Len(d.inbox[x]) <= MaxInbox

\* In SpecDir every client handles its events at once: the inboxes hold what
\* the latest handler emitted.
DirState0 == [DirState EXCEPT !.inbox = [x \in SocketIds |-> <<>>]]


\* ------------------------------------------------ client (Video.js)
\* A signal produced by a SimplePeer instance.  `tag` names the offer a signal
\* belongs to (the instance that made the offer), `by` the instance that
\* produced the signal, `n` numbers the candidates of one instance.
Offer(c, pid) == [type |-> "offer", tag |-> <<c, pid>>, by |-> <<c, pid>>, n |-> 0]
Answer(c, pid, tag) == [type |-> "answer", tag |-> tag, by |-> <<c, pid>>, n |-> 0]
Candidate(c, pid, n) == [type |-> "candidate", tag |-> <<c, pid>>, by |-> <<c, pid>>, n |-> n]

\* new SimplePeer({initiator, stream: localStream, ...}) and the callbacks
\* createPeer hangs on it.  `applied` logs the signals handed to peer.signal,
\* `owed` (history) the signals that were deferred when the instance was made.
BlankInst ==
    [used |-> FALSE, remote |-> 0, initiator |-> FALSE, stream |-> "none", track |-> "none",
     destroyed |-> FALSE, failing |-> FALSE, sigState |-> "stable",
     localOffer |-> FALSE, remoteTag |-> <<>>, answer |-> <<>>,
     delayed |-> <<>>, debounce |-> <<>>, nCand |-> 0, applied |-> <<>>,
     ice |-> "new", partner |-> <<>>, remoteStream |-> FALSE,
     closeEvt |-> FALSE, tmo |-> FALSE, sent |-> FALSE, owed |-> <<>>]

NewInst(userId, initiator, stream) ==
    [BlankInst EXCEPT !.used = TRUE, !.remote = userId, !.initiator = initiator,
                      !.stream = stream, !.track = stream, !.tmo = TRUE]

InitClient ==
    [sock |-> 0, inRoom |-> FALSE, localStream |-> "none", hStream |-> "none",
     videoOn |-> TRUE, audioOn |-> TRUE, lastAlert |-> "none",
     peersRef |-> [u \in SocketIds |-> 0],
     \* the rendered `peers` state and the `connectionStatus` state
     peers |-> [u \in SocketIds |-> 0],
     status |-> [u \in SocketIds |-> "none"],
     \* history: 'failed' was reported for the remote id and neither
     \* 'connected' nor its user-left has followed
     failed |-> [u \in SocketIds |-> FALSE],
     pendingCandidates |-> [u \in SocketIds |-> <<>>],
     inst |-> [p \in PeerIds |-> BlankInst],
     \* history: the ids whose user-left was handled and that were not announced
     \* since, and the signals that arrived for an id since its last PeerLink
     \* was made and found none to take them, in arrival order
     left |-> {},
     heard |-> [u \in SocketIds |-> <<>>]]

\* The numbers 1..MaxPeers name the SimplePeer instances one client creates.
\* An instance is garbage once it is destroyed, its 'close' event has been
\* handled, and it never emitted a signal (so that no message and no other
\* instance refers to it); the name of a garbage instance is free.
FreePids(c, k) == {p \in PeerIds : ~k.inst[p].used}
FreeCount(c, k) == Cardinality(FreePids(c, k))
NewPid(c, k) == CHOOSE p \in FreePids(c, k) : \A q \in FreePids(c, k) : p <= q

Garbage(x) == x.used /\ x.destroyed /\ ~x.closeEvt /\ ~x.sent

Collect(k) == [k EXCEPT !.inst = [p \in PeerIds |-> IF Garbage(k.inst[p]) THEN BlankInst ELSE k.inst[p]]]

\* SimplePeer instances of client state k for remote id u that are not destroyed
Live(k, u) == {p \in PeerIds : k.inst[p].used /\ ~k.inst[p].destroyed /\ k.inst[p].remote = u}

\* peer.signal(data), as simple-peer and RTCPeerConnection act on it:
\*   a candidate is handed to the connection (kept until a remote description
\*   exists); an offer is set as remote description and answered at once,
\*   the answer leaving through the 'signal' callback; an answer is accepted
\*   only in have-local-offer.  setRemoteDescription rejecting makes
\*   simple-peer destroy the instance with an error; the rejection arrives
\*   later (`failing`), and until then the instance keeps taking signals.
\*   glare: what an offer does to a connection in have-local-offer
\*   ("rollback": implicit rollback and answer, "error": InvalidStateError).
PeerSignal(c, pid, x, sig, glare) ==
    IF x.destroyed THEN x
    ELSE IF x.failing THEN [x EXCEPT !.applied = Append(@, sig)]
    ELSE LET y == [x EXCEPT !.applied = Append(@, sig)]
         IN CASE sig.type = "candidate" -> y
              [] sig.type = "offer" ->
                   IF x.sigState = "have-local-offer" /\ glare = "error"
                   THEN [y EXCEPT !.failing = TRUE]
                   ELSE [y EXCEPT !.sigState = "stable", !.localOffer = FALSE,
                                  !.remoteTag = sig.tag, !.answer = <<>>,
                                  !.ice = IF sig.tag = x.remoteTag THEN @ ELSE "new",
                                  !.partner = IF sig.tag = x.remoteTag THEN @ ELSE <<>>,
                                  !.debounce = <<Answer(c, pid, sig.tag)>>]
              [] sig.type = "answer" ->
                   IF x.sigState = "have-local-offer"
                   THEN [y EXCEPT !.sigState = "stable", !.answer = <<sig>>]
                   ELSE [y EXCEPT !.failing = TRUE]

\* did peer.signal hand the instance a remote description with media ('stream' event)
GotStream(x, y) == ~y.failing /\ (y.remoteTag # x.remoteTag \/ y.answer # x.answer)

\* a drain that hands over the deferred signals last first
RECURSIVE DrainLastFirst(_, _, _, _)
DrainLastFirst(c, pid, x, queue) ==
    IF queue = <<>> THEN x
    ELSE DrainLastFirst(c, pid, PeerSignal(c, pid, x, queue[Len(queue)], "error"),
                        SubSeq(queue, 1, Len(queue) - 1))

\* pendingCandidates.current[userId].forEach((signal) => peer.signal(signal))
RECURSIVE Drain(_, _, _, _)
Drain(c, pid, x, queue) ==
    IF queue = <<>> THEN x
    ELSE Drain(c, pid, PeerSignal(c, pid, x, Head(queue), "error"), Tail(queue))

\* peer.on('stream'): peersRef.current[userId].remoteStream = stream, and
\* once the stream is assigned to the video element the status is 'connected'
\* (lines 474-503)
SetRemoteStream(k, userId) ==
    IF k.peersRef[userId] = 0 THEN k
    ELSE [k EXCEPT !.inst[k.peersRef[userId]].remoteStream = TRUE,
                   !.status[userId] = "connected",
                   !.failed[userId] = FALSE]

\* createPeer(userId, initiator), called from a closure whose localStream is `stream`
CreatePeer(c, k, userId, initiator, stream) ==
    LET pid == NewPid(c, k)
        x0 == [NewInst(userId, initiator, stream) EXCEPT !.owed = k.heard[userId]]
        x1 == Drain(c, pid, x0, k.pendingCandidates[userId])
        \* an initiator negotiates at once: createOffer, setLocalDescription and
        \* the 'signal' callback, which finds have-local-offer and delays the offer
        x2 == IF initiator /\ ~x1.failing
              THEN [x1 EXCEPT !.sigState = "have-local-offer", !.localOffer = TRUE,
                              !.delayed = <<Offer(c, pid)>>]
              ELSE x1
        k1 == [k EXCEPT !.inst[pid] = x2, !.peersRef[userId] = pid,
                        !.pendingCandidates[userId] = <<>>, !.heard[userId] = <<>>]
    IN IF GotStream(x0, x1) THEN SetRemoteStream(k1, userId) ELSE k1

\* peer.destroy(): the connection is closed and dropped with all it held, its
\* timers find it closed, and the 'close' event is emitted to the handler
\* afterwards
Destroy(x) ==
    IF x.destroyed THEN x
    ELSE [BlankInst EXCEPT !.used = TRUE, !.remote = x.remote, !.initiator = x.initiator,
                          !.stream = x.stream, !.track = x.track, !.sent = x.sent,
                          !.destroyed = TRUE, !.sigState = "closed", !.closeEvt = TRUE]

\* a renegotiatePeer that recreates the instance in the role the old one had
RenegotiatePeerKeepingRole(c, k, userId, stream) ==
    IF k.peersRef[userId] = 0 THEN k
    ELSE LET pid == k.peersRef[userId]
             k1 == [k EXCEPT !.inst[pid] = Destroy(@), !.peersRef[userId] = 0,
                             !.peers[userId] = 0, !.status[userId] = "connecting"]
             k2 == CreatePeer(c, k1, userId, k.inst[pid].initiator, stream)
         IN [k2 EXCEPT !.peers[userId] = k2.peersRef[userId]]

\* renegotiatePeer(userId), called from a closure whose localStream is `stream`
RenegotiatePeer(c, k, userId, stream) ==
    IF k.peersRef[userId] = 0 THEN k
    ELSE LET pid == k.peersRef[userId]
             \* the 'stream' event of the new instance comes after
             \* setConnectionStatus('connecting') of line 402
             k1 == [k EXCEPT !.inst[pid] = Destroy(@), !.peersRef[userId] = 0,
                             !.peers[userId] = 0, !.status[userId] = "connecting"]
             k2 == CreatePeer(c, k1, userId, TRUE, stream)
         IN [k2 EXCEPT !.peers[userId] = k2.peersRef[userId]]

\* renegotiatePeer(userId) when the construction of the new instance throws:
\* createPeer catches it and returns null (lines 542-545), and `if (newPeer)`
\* (line 399) stores nothing
RenegotiatePeerThrowing(c, k, userId) ==
    IF k.peersRef[userId] = 0 THEN k
    ELSE [k EXCEPT !.inst[k.peersRef[userId]] = Destroy(@), !.peersRef[userId] = 0,
                   !.peers[userId] = 0]

\* the instances a call renegotiatePeer(userId) needs
NeedsPid(k, userId) == IF k.peersRef[userId] = 0 THEN 0 ELSE 1

HandleUserJoined(c, k, userId) ==
    LET k0 == [k EXCEPT !.left = @ \ {userId}, !.status[userId] = "connecting"]
        k1 == CreatePeer(c, k0, userId, TRUE, k.hStream)
    IN [k1 EXCEPT !.peers[userId] = k1.peersRef[userId]]

HandleOffer(c, k, data, glare) ==
    LET from == data.id
        k0 == CreatePeer(c, k, from, FALSE, k.hStream)
        k1 == IF k.peersRef[from] = 0
              THEN [k0 EXCEPT !.peers[from] = k0.peersRef[from]]
              ELSE k
        pid == k1.peersRef[from]
        x == k1.inst[pid]
        y == PeerSignal(c, pid, x, data.data[1], glare)
        k2 == [k1 EXCEPT !.inst[pid] = y]
    IN IF x.sigState = "closed" THEN k1
       ELSE IF GotStream(x, y) THEN SetRemoteStream(k2, from) ELSE k2

HandleAnswer(c, k, data) ==
    LET from == data.id
        pid == k.peersRef[from]
    IN IF pid # 0 /\ k.inst[pid].sigState # "closed"
       THEN LET x == k.inst[pid]
                y == PeerSignal(c, pid, x, data.data[1], "error")
                k2 == [k EXCEPT !.inst[pid] = y]
            IN IF GotStream(x, y) THEN SetRemoteStream(k2, from) ELSE k2
       ELSE [k EXCEPT !.pendingCandidates[from] = Append(@, data.data[1]),
                      !.heard[from] = Append(@, data.data[1])]

\* a handler that drops the candidate when there is no usable peer
HandleIceCandidateDropping(c, k, data) ==
    LET from == data.id
        pid == k.peersRef[from]
    IN IF pid # 0 /\ k.inst[pid].sigState # "closed"
       THEN [k EXCEPT !.inst[pid] = PeerSignal(c, pid, @, data.data[1], "error")]
       ELSE [k EXCEPT !.heard[from] = Append(@, data.data[1])]

HandleIceCandidate(c, k, data) ==
    LET from == data.id
        pid == k.peersRef[from]
    IN IF pid # 0 /\ k.inst[pid].sigState # "closed"
       THEN [k EXCEPT !.inst[pid] = PeerSignal(c, pid, @, data.data[1], "error")]
       ELSE [k EXCEPT !.pendingCandidates[from] = Append(@, data.data[1]),
                      !.heard[from] = Append(@, data.data[1])]

\* a handler that forgets the rendered table
HandleUserLeftRefOnly(c, k, userId) ==
    LET k1 == [k EXCEPT !.left = @ \cup {userId}, !.status[userId] = "disconnected",
                        !.failed[userId] = FALSE]
    IN IF k.peersRef[userId] = 0 THEN k1
       ELSE [k1 EXCEPT !.inst[k.peersRef[userId]] = Destroy(@), !.peersRef[userId] = 0]

HandleUserLeft(c, k, userId) ==
    LET k1 == [k EXCEPT !.left = @ \cup {userId}, !.status[userId] = "disconnected",
                        !.failed[userId] = FALSE]
    IN IF k.peersRef[userId] = 0 THEN k1
       ELSE [k1 EXCEPT !.inst[k.peersRef[userId]] = Destroy(@), !.peersRef[userId] = 0,
                       !.peers[userId] = 0]

\* ------------------------------------------ the relay driven by any client
Init ==
    /\ nextSock = 1
    /\ connected = {}
    /\ adapter = [s \in SocketIds |-> {}]
    /\ rooms = <<>>
    /\ inbox = [s \in SocketIds |-> <<>>]
    /\ joined = [r \in RoomIds |-> {}]
    /\ cl = [c \in Clients |-> InitClient]

DirConnectUpTo(n) ==
    /\ nextSock <= n
    /\ connected' = connected \cup {nextSock}
    /\ nextSock' = nextSock + 1
    /\ inbox' = [x \in SocketIds |-> <<>>]
    /\ UNCHANGED <<adapter, rooms, joined, cl>>

DirConnect == DirConnectUpTo(MaxDirSockets)

DirJoinRoom(s, roomId, userId) ==
    /\ s \in connected
    /\ SetDir(OnJoinRoom(DirState0, s, roomId, userId))
    /\ joined' = [r \in RoomIds |-> IF r = roomId THEN joined[r] \cup {s} ELSE joined[r]]
    /\ UNCHANGED <<nextSock, cl>>

\* what a socket can put in the `signal` field: a signal, a signal in a
\* payload that names another sender, or nothing
DirPayloads ==
    {Offer("A", 1), [type |-> "none"]}
    \cup {[type |-> "offer", tag |-> <<"A", 1>>, by |-> <<"A", 1>>, n |-> 0, from |-> f]
             : f \in {1, MaxDirSockets}}

DirSignal(s, kind, to, payload) ==
    /\ s \in connected
    /\ SetDir(OnSignal(DirState0, s, kind, to, payload))
    /\ UNCHANGED <<nextSock, joined, cl>>

\* the same sockets driving the relay of server.js
DirJoinRoomB(s, roomId, userId) ==
    /\ s \in connected
    /\ SetDir(OnJoinRoomB(DirState0, s, roomId, userId))
    /\ joined' = [joined EXCEPT ![roomId] = @ \cup {s}]
    /\ UNCHANGED <<nextSock, cl>>

DirSignalB(s, kind, to, payload) ==
    /\ s \in connected
    /\ SetDir(OnSignalB(DirState0, s, kind, to, payload))
    /\ UNCHANGED <<nextSock, joined, cl>>

DirDisconnectB(s) ==
    /\ s \in connected
    /\ SetDir(OnDisconnectB(DirState0, s))
    /\ joined' = [r \in RoomIds |-> joined[r] \ {s}]
    /\ UNCHANGED <<nextSock, cl>>

DirDisconnect(s) ==
    /\ s \in connected
    /\ SetDir(OnDisconnect(DirState0, s))
    /\ joined' = [r \in RoomIds |-> joined[r] \ {s}]
    /\ UNCHANGED <<nextSock, cl>>

\* ------------------------------------------------ the closed system
RECURSIVE RenegotiateAll(_, _, _, _)
\* Object.keys(peersRef.current).forEach((userId) => renegotiatePeer(userId))
RenegotiateAll(c, k, keys, stream) ==
    IF keys = {} THEN k
    ELSE LET u == CHOOSE v \in keys : \A w \in keys : v <= w
         IN RenegotiateAll(c, RenegotiatePeer(c, k, u, stream), keys \ {u}, stream)

Keys(k) == {u \in SocketIds : k.peersRef[u] # 0}

EvOf(sig) == IF sig.type = "candidate" THEN "ice-candidate" ELSE sig.type

\* the socket connects (first connection, or socket.io reconnecting): the
\* 'connect' handler of the effect, lines 79-86
Connect(c, v) ==
    LET k == cl[c]
        s == nextSock
        d0 == [DirState EXCEPT !.connected = @ \cup {s}]
        d1 == IF k.inRoom THEN RelayJoin(v, d0, s, Room, s) ELSE d0
        k1 == [k EXCEPT !.sock = s]
        k2 == IF k.inRoom THEN RenegotiateAll(c, k1, Keys(k1), k.hStream) ELSE k1
    IN /\ k.sock = 0
       /\ nextSock <= MaxSockets
       /\ k.inRoom => FreeCount(c, k) >= Cardinality(Keys(k))
       /\ InboxRoom(d1)
       /\ nextSock' = nextSock + 1
       /\ SetDir(d1)
       /\ joined' = IF k.inRoom THEN [joined EXCEPT ![Room] = @ \cup {s}] ELSE joined
       /\ cl' = [cl EXCEPT ![c] = k2]

SocketConnect(c) == Connect(c, "directory")

\* joinRoom (lines 199-228) with media granted; setInRoom(true) re-runs the
\* socket effect (deps [logDebug, roomId, inRoom], line 156): its cleanup
\* disconnects the socket and a new one is created
Join(c, v) ==
    LET k == cl[c]
        s == k.sock
        d1 == RelayJoin(v, DirState, s, Room, s)
        d2 == RelayDisconnect(v, d1, s)
    IN /\ ~k.inRoom
       /\ s # 0
       /\ InboxRoom(d2)
       /\ SetDir(d2)
       /\ joined' = [r \in RoomIds |-> joined[r] \ {s}]
       /\ cl' = [cl EXCEPT ![c] = [k EXCEPT !.inRoom = TRUE, !.localStream = "camera",
                                            !.hStream = "camera", !.sock = 0]]
       /\ UNCHANGED nextSock

JoinRoom(c) == Join(c, "directory")

\* a joinRoom that announces the participant before it asks for the media
JoinRoomStepsEager(roomId, permOk, mediaOk) ==
    IF roomId = NoRoom
    THEN [emit |-> FALSE, inRoom |-> FALSE, stream |-> "none", alert |-> "room"]
    ELSE IF ~permOk
    THEN [emit |-> TRUE, inRoom |-> FALSE, stream |-> "none", alert |-> "permissions"]
    ELSE IF ~mediaOk
    THEN [emit |-> TRUE, inRoom |-> FALSE, stream |-> "none", alert |-> "media"]
    ELSE [emit |-> TRUE, inRoom |-> TRUE, stream |-> "camera", alert |-> "none"]

\* joinRoom (lines 199-228) by the room id typed, the outcome of
\* checkPermissions (lines 190-197) and the outcome of getUserMedia: whether
\* join-room is emitted, what inRoom and localStream become, and the alert shown
JoinRoomSteps(roomId, permOk, mediaOk) ==
    IF roomId = NoRoom
    THEN [emit |-> FALSE, inRoom |-> FALSE, stream |-> "none", alert |-> "room"]
    ELSE IF ~permOk
    THEN [emit |-> FALSE, inRoom |-> FALSE, stream |-> "none", alert |-> "permissions"]
    ELSE IF ~mediaOk
    THEN [emit |-> FALSE, inRoom |-> FALSE, stream |-> "none", alert |-> "media"]
    ELSE [emit |-> TRUE, inRoom |-> TRUE, stream |-> "camera", alert |-> "none"]

\* a click on the join button: joinRoom runs to its end; setInRoom(true)
\* re-runs the socket effect as in Join
JoinAttempt(c, v, roomId, permOk, mediaOk) ==
    LET k == cl[c]
        s == k.sock
        o == JoinRoomSteps(roomId, permOk, mediaOk)
        d1 == IF o.emit THEN RelayJoin(v, DirState, s, roomId, s) ELSE DirState
        d2 == IF o.inRoom THEN RelayDisconnect(v, d1, s) ELSE d1
        k1 == [k EXCEPT !.inRoom = o.inRoom,
                        !.localStream = IF o.stream = "none" THEN @ ELSE o.stream,
                        !.hStream = IF o.stream = "none" THEN @ ELSE o.stream,
                        !.sock = IF o.inRoom THEN 0 ELSE s,
                        !.lastAlert = IF o.alert = "none" THEN @ ELSE o.alert]
    IN /\ ~k.inRoom
       /\ s # 0
       /\ InboxRoom(d2)
       /\ SetDir(d2)
       /\ joined' = [r \in RoomIds |->
                        IF o.inRoom THEN joined[r] \ {s}
                        ELSE IF o.emit /\ r = roomId THEN joined[r] \cup {s}
                        ELSE joined[r]]
       /\ cl' = [cl EXCEPT ![c] = k1]
       /\ UNCHANGED nextSock

\* the connection to the relay is lost; socket.io will reconnect
SocketDrop(c) ==
    LET k == cl[c]
        d1 == OnDisconnect(DirState, k.sock)
    IN /\ k.sock # 0
       /\ k.inRoom
       /\ InboxRoom(d1)
       /\ SetDir(d1)
       /\ joined' = [r \in RoomIds |-> joined[r] \ {k.sock}]
       /\ cl' = [cl EXCEPT ![c].sock = 0]
       /\ UNCHANGED nextSock

\* the socket handlers registered in lines 97-101
Dispatch(c, k, m, glare) ==
    CASE m.ev = "user-joined" -> HandleUserJoined(c, k, m.id)
      [] m.ev = "offer" -> HandleOffer(c, k, m, glare)
      [] m.ev = "answer" -> HandleAnswer(c, k, m)
      [] m.ev = "ice-candidate" -> HandleIceCandidate(c, k, m)
      [] m.ev = "user-left" -> HandleUserLeft(c, k, m.id)

CreatesPeer(k, m) ==
    \/ m.ev = "user-joined"
    \/ m.ev = "offer" /\ k.peersRef[m.id] = 0

IsGlare(k, m) ==
    /\ m.ev = "offer"
    /\ k.peersRef[m.id] # 0
    /\ k.inst[k.peersRef[m.id]].sigState = "have-local-offer"

Handle(c, glare) ==
    LET k == cl[c]
        m == Head(inbox[k.sock])
    IN /\ k.sock # 0
       /\ inbox[k.sock] # <<>>
       /\ CreatesPeer(k, m) => FreeCount(c, k) >= 1
       /\ glare = "rollback" => IsGlare(k, m)
       /\ inbox' = [inbox EXCEPT ![k.sock] = Tail(@)]
       /\ cl' = [cl EXCEPT ![c] = Dispatch(c, k, m, glare)]
       /\ UNCHANGED <<nextSock, connected, adapter, rooms, joined>>

\* handleOffer (lines 557-571) when there is no peer for the sender and the
\* browser refuses to construct a connection: createPeer returns null
\* (lines 542-545) and neither `if (peer)` branch runs
HandleThrowing(c) ==
    LET k == cl[c]
        m == Head(inbox[k.sock])
    IN /\ k.sock # 0
       /\ inbox[k.sock] # <<>>
       /\ m.ev = "offer"
       /\ k.peersRef[m.id] = 0
       /\ inbox' = [inbox EXCEPT ![k.sock] = Tail(@)]
       /\ UNCHANGED <<nextSock, connected, adapter, rooms, joined, cl>>

\* setTimeout(() => debouncedSignal(signal), 500), line 470
DelayFire(c, pid) ==
    LET x == cl[c].inst[pid]
    IN /\ x.used /\ ~x.destroyed
       /\ x.delayed # <<>>
       /\ cl' = [cl EXCEPT ![c].inst[pid] = [x EXCEPT !.delayed = <<>>, !.debounce = x.delayed]]
       /\ UNCHANGED dirVars

\* the connection gathers a candidate: 'signal' with signal.candidate goes
\* straight to debouncedSignal (line 466), replacing a pending call
GenCandidate(c, pid) ==
    LET x == cl[c].inst[pid]
    IN /\ x.used /\ ~x.destroyed /\ ~x.failing
       /\ x.localOffer \/ x.remoteTag # <<>>
       /\ x.nCand < MaxCand
       /\ cl' = [cl EXCEPT ![c].inst[pid] =
                    [x EXCEPT !.nCand = @ + 1, !.debounce = <<Candidate(c, pid, x.nCand + 1)>>]]
       /\ UNCHANGED dirVars

\* the debounced function runs (lines 448-463) and emits to the relay
DebounceFire(c, pid) ==
    LET k == cl[c]
        x == k.inst[pid]
        sig == x.debounce[1]
        d1 == OnSignal(DirState, k.sock, EvOf(sig), x.remote, sig)
    IN /\ x.used /\ ~x.destroyed
       /\ x.debounce # <<>>
       /\ k.sock # 0
       /\ InboxRoom(d1)
       /\ SetDir(d1)
       /\ cl' = [cl EXCEPT ![c].inst[pid].debounce = <<>>, ![c].inst[pid].sent = TRUE]
       /\ UNCHANGED <<nextSock, joined>>

\* simple-peer destroys the instance with an error: 'error' (lines 510-514)
\* and then 'close' (lines 516-520) are emitted
PeerError(c, pid) ==
    LET k == cl[c]
        x == k.inst[pid]
        k0 == [k EXCEPT !.inst[pid] = [Destroy(x) EXCEPT !.closeEvt = FALSE],
                        !.status[x.remote] = "failed",
                        !.failed[x.remote] = TRUE]
        k1 == RenegotiatePeer(c, k0, x.remote, x.stream)
        k2 == RenegotiatePeer(c, [k1 EXCEPT !.status[x.remote] = "disconnected"],
                              x.remote, x.stream)
    IN /\ x.used /\ ~x.destroyed /\ x.failing
       /\ FreeCount(c, k) >= 2 * NeedsPid(k, x.remote)
       /\ cl' = [cl EXCEPT ![c] = k2]
       /\ UNCHANGED dirVars

\* the same events when the browser refuses to construct another connection:
\* the 'error' handler's renegotiatePeer empties the table, and the 'close'
\* handler's renegotiatePeer finds no peer and returns (line 387)
PeerErrorThrowing(c, pid) ==
    LET k == cl[c]
        x == k.inst[pid]
        k0 == [k EXCEPT !.inst[pid] = [Destroy(x) EXCEPT !.closeEvt = FALSE],
                        !.status[x.remote] = "failed",
                        !.failed[x.remote] = TRUE]
        k1 == RenegotiatePeerThrowing(c, k0, x.remote)
    IN /\ x.used /\ ~x.destroyed /\ x.failing
       /\ cl' = [cl EXCEPT ![c] = [k1 EXCEPT !.status[x.remote] = "disconnected"]]
       /\ UNCHANGED dirVars

\* the 'close' event of a destroyed instance (lines 516-520)
PeerClose(c, pid) ==
    LET k == cl[c]
        x == k.inst[pid]
        k0 == Collect([k EXCEPT !.inst[pid].closeEvt = FALSE,
                                !.status[x.remote] = "disconnected"])
    IN /\ x.used /\ x.closeEvt
       /\ FreeCount(c, k0) >= NeedsPid(k, x.remote)
       /\ cl' = [cl EXCEPT ![c] = RenegotiatePeer(c, k0, x.remote, x.stream)]
       /\ UNCHANGED dirVars

\* the 10 s timer of createPeer (lines 523-528); the 500 ms and 100 ms timers
\* of the instance's first signal were armed with shorter deadlines and have
\* fired before it
Timeout(c, pid) ==
    LET k == cl[c]
        x == k.inst[pid]
        t == k.peersRef[x.remote]
        k0 == [k EXCEPT !.inst[pid].tmo = FALSE]
    IN /\ x.used /\ ~x.destroyed /\ x.tmo
       /\ x.delayed = <<>> /\ x.debounce = <<>>
       /\ FreeCount(c, k) >= NeedsPid(k, x.remote)
       /\ cl' = [cl EXCEPT ![c] =
                    IF ~(t # 0 /\ k.inst[t].remoteStream) /\ x.ice # "connected"
                    THEN RenegotiatePeer(c, k0, x.remote, x.stream)
                    ELSE k0]
       /\ UNCHANGED dirVars

\* the transport connects an offerer whose offer was answered with the
\* answerer; oniceconnectionstatechange reports 'connected' on both sides
Negotiated(c, px, d, py) ==
    LET x == cl[c].inst[px]
        y == cl[d].inst[py]
    IN /\ x.used /\ ~x.destroyed /\ ~x.failing
       /\ y.used /\ ~y.destroyed /\ ~y.failing
       /\ x.localOffer /\ x.answer # <<>>
       /\ x.answer[1].tag = <<c, px>> /\ x.answer[1].by = <<d, py>>
       /\ y.remoteTag = <<c, px>>

TransportConnect(c, px, d, py) ==
    /\ c # d
    /\ Negotiated(c, px, d, py)
    /\ cl[c].inst[px].ice = "new" /\ cl[d].inst[py].ice = "new"
    /\ cl' = [cl EXCEPT ![c].inst[px].ice = "connected", ![c].inst[px].partner = <<d, py>>,
                        ![c].status[cl[c].inst[px].remote] = "connected",
                        ![c].failed[cl[c].inst[px].remote] = FALSE,
                        ![d].inst[py].ice = "connected", ![d].inst[py].partner = <<c, px>>,
                        ![d].status[cl[d].inst[py].remote] = "connected",
                        ![d].failed[cl[d].inst[py].remote] = FALSE]
    /\ UNCHANGED dirVars

\* the other end of a connected instance was destroyed: the ICE state goes
\* to 'disconnected' and the handler renegotiates (lines 436-441)
RemoteGone(c, pid) ==
    LET k == cl[c]
        x == k.inst[pid]
        k0 == [k EXCEPT !.inst[pid].ice = "disconnected"]
    IN /\ x.used /\ ~x.destroyed
       /\ x.ice = "connected"
       /\ LET y == cl[x.partner[1]].inst[x.partner[2]] IN ~y.used \/ y.destroyed
       /\ FreeCount(c, k) >= NeedsPid(k, x.remote)
       /\ cl' = [cl EXCEPT ![c] = RenegotiatePeer(c, k0, x.remote, x.stream)]
       /\ UNCHANGED dirVars

\* toggleScreenShare while not sharing (lines 253-299): the video track of
\* the existing peers is replaced, the screen stream is stored, and every peer
\* is renegotiated by the renegotiatePeer of the render that handled the click
ToggleScreenShare(c) ==
    LET k == cl[c]
        new == "screen"
        k1 == [k EXCEPT !.localStream = new,
                        !.inst = [p \in PeerIds |->
                                    IF \E u \in SocketIds : k.peersRef[u] = p
                                    THEN [k.inst[p] EXCEPT !.track = new] ELSE k.inst[p]]]
    IN /\ k.inRoom
       /\ k.localStream = "camera"
       /\ FreeCount(c, k) >= Cardinality(Keys(k))
       /\ cl' = [cl EXCEPT ![c] = RenegotiateAll(c, k1, Keys(k1), k.localStream)]
       /\ UNCHANGED dirVars

\* toggleScreenShare while sharing (lines 300-302) calls revertToCamera (lines
\* 307-350): the video track of the existing peers is replaced by the camera
\* track, the camera stream is stored, and every peer is renegotiated by the
\* renegotiatePeer of the render that handled the click
RevertToCamera(c) ==
    LET k == cl[c]
        new == "camera"
        k1 == [k EXCEPT !.localStream = new,
                        !.inst = [p \in PeerIds |->
                                    IF \E u \in SocketIds : k.peersRef[u] = p
                                    THEN [k.inst[p] EXCEPT !.track = new] ELSE k.inst[p]]]
    IN /\ k.inRoom
       /\ k.localStream = "screen"
       /\ FreeCount(c, k) >= Cardinality(Keys(k))
       /\ cl' = [cl EXCEPT ![c] = RenegotiateAll(c, k1, Keys(k1), k.localStream)]
       /\ UNCHANGED dirVars

\* toggleVideo (lines 230-240): the enabled flag of the local video track is
\* flipped, and every peer is renegotiated by the renegotiatePeer of the
\* render that handled the click
ToggleVideo(c) ==
    LET k == cl[c]
        k1 == [k EXCEPT !.videoOn = ~@]
    IN /\ k.localStream # "none"
       /\ FreeCount(c, k) >= Cardinality(Keys(k))
       /\ cl' = [cl EXCEPT ![c] = RenegotiateAll(c, k1, Keys(k1), k.localStream)]
       /\ UNCHANGED dirVars

\* toggleAudio (lines 242-251): the enabled flag of the local audio track is flipped
ToggleAudio(c) ==
    LET k == cl[c]
    IN /\ k.localStream # "none"
       /\ cl' = [cl EXCEPT ![c].audioOn = ~@]
       /\ UNCHANGED dirVars

\* two participants joining one room through the relay of part_000 and
\* negotiating, up to the 'close' events of the instances destroyed on the way
Next ==
    \/ \E c \in Clients : SocketConnect(c)
    \/ \E c \in Clients : JoinRoom(c)
    \/ \E c \in Clients, g \in {"error", "rollback"} : Handle(c, g)
    \/ \E c \in Clients, p \in PeerIds : DelayFire(c, p)
    \/ \E c \in Clients, p \in PeerIds : DebounceFire(c, p)
    \/ \E c \in Clients, p \in PeerIds : PeerError(c, p)
    \/ \E c, d \in Clients, p, q \in PeerIds : TransportConnect(c, p, d, q)

Spec == Init /\ [][Next]_vars

\* two participants joining and negotiating while their connections gather
\* candidates (trickle ICE)
NextTrickle ==
    \/ \E c \in Clients : SocketConnect(c)
    \/ \E c \in Clients : JoinRoom(c)
    \/ \E c \in Clients, g \in {"error", "rollback"} : Handle(c, g)
    \/ \E c \in Clients, p \in PeerIds : DelayFire(c, p)
    \/ \E c \in Clients, p \in PeerIds : GenCandidate(c, p)
    \/ \E c \in Clients, p \in PeerIds : DebounceFire(c, p)

SpecTrickle == Init /\ [][NextTrickle]_vars

\* joining, losing the connection to the relay and reconnecting, before any
\* signal timer has fired
NextReconnect ==
    \/ \E c \in Clients : SocketConnect(c)
    \/ \E c \in Clients : JoinRoom(c)
    \/ \E c \in Clients : SocketDrop(c)
    \/ \E c \in Clients, g \in {"error", "rollback"} : Handle(c, g)
    \/ \E c \in Clients, p \in PeerIds : PeerClose(c, p)

SpecReconnect == Init /\ [][NextReconnect]_vars

\* two participants joining one room through the relay of backend/server.js.
\* With this relay only the earlier joiner offers; an instance is handed a
\* signal it rejects ('error') only after more renegotiations than MaxPeers
\* instance names allow, so the 'error' handler is not among the steps.
MeshConnect(c) == Connect(c, "broadcast")

MeshJoin(c) == Join(c, "broadcast")

NextMesh ==
    \/ \E c \in Clients : MeshConnect(c)
    \/ \E c \in Clients : MeshJoin(c)
    \/ \E c \in Clients, g \in {"error", "rollback"} : Handle(c, g)
    \/ \E c \in Clients, p \in PeerIds : DelayFire(c, p)
    \/ \E c \in Clients, p \in PeerIds : DebounceFire(c, p)
    \/ \E c \in Clients, p \in PeerIds : PeerClose(c, p)
    \/ \E c \in Clients, p \in PeerIds : Timeout(c, p)
    \/ \E c, d \in Clients, p, q \in PeerIds : TransportConnect(c, p, d, q)

\* the mesh when the construction of a connection for an incoming offer may
\* fail
NextOfferThrow ==
    \/ \E c \in Clients : MeshConnect(c)
    \/ \E c \in Clients : MeshJoin(c)
    \/ \E c \in Clients, g \in {"error", "rollback"} : Handle(c, g)
    \/ \E c \in Clients : HandleThrowing(c)
    \/ \E c \in Clients, p \in PeerIds : DelayFire(c, p)
    \/ \E c \in Clients, p \in PeerIds : DebounceFire(c, p)
    \/ \E c \in Clients, p \in PeerIds : PeerClose(c, p)
    \/ \E c \in Clients, p \in PeerIds : Timeout(c, p)
    \/ \E c, d \in Clients, p, q \in PeerIds : TransportConnect(c, p, d, q)

SpecOfferThrow == Init /\ [][NextOfferThrow]_vars

\* Every participant joins; the relay delivers every message; every timer
\* that stays armed fires, every pending event of an instance is emitted, and
\* a negotiated transport connects.  Fairness is per timer and per instance:
\* a timer that is cancelled (its instance destroyed) need not fire.
FairMesh ==
    /\ \A c \in Clients : WF_vars(MeshConnect(c)) /\ WF_vars(MeshJoin(c))
    /\ \A c \in Clients : WF_vars(\E g \in {"error", "rollback"} : Handle(c, g))
    /\ \A c \in Clients, p \in PeerIds :
          /\ WF_vars(DelayFire(c, p))
          /\ WF_vars(DebounceFire(c, p))
          /\ WF_vars(PeerClose(c, p))
          /\ WF_vars(Timeout(c, p))
    /\ WF_vars(\E c, d \in Clients, p, q \in PeerIds : TransportConnect(c, p, d, q))

SpecMesh == Init /\ [][NextMesh]_vars /\ FairMesh

\* ---------------------- the handlers of one client, under any event order
\* The remote participant of the single-client specification, and the socket
\* events it can cause at the client: its signals are those of one instance,
\* named <<"B", 1>>, and it is announced only while the client holds no
\* PeerLink for it.
RemoteIds == {MaxSockets}

EnvEvents ==
    UNION {
      {[ev |-> "user-joined", id |-> u, data |-> <<>>],
       [ev |-> "user-left", id |-> u, data |-> <<>>],
       [ev |-> "offer", id |-> u, data |-> <<Offer("B", 1)>>]}
      \cup {[ev |-> "answer", id |-> u, data |-> <<Answer("B", 1, <<"A", 1>>)>>]}
      \cup {[ev |-> "ice-candidate", id |-> u, data |-> <<Candidate("B", 1, n)>>] : n \in 1..MaxEnvCand}
      : u \in RemoteIds }

\* the logs of the model stay within their bounds
InBounds(k) ==
    /\ \A u \in SocketIds : Len(k.pendingCandidates[u]) <= MaxQueue
    /\ \A p \in PeerIds : Len(k.inst[p].applied) <= MaxApplied

\* the socket delivers event m to the handlers of lines 97-101
Deliver(c, m, glare) ==
    LET k == cl[c]
        k1 == Dispatch(c, k, m, glare)
    IN /\ k.sock # 0 /\ k.inRoom
       /\ CreatesPeer(k, m) => FreeCount(c, k) >= 1
       /\ glare = "rollback" => IsGlare(k, m)
       /\ InBounds(k1)
       /\ m.ev = "user-joined" => k.peersRef[m.id] = 0
       /\ cl' = [cl EXCEPT ![c] = k1]
       /\ UNCHANGED dirVars

\* oniceconnectionstatechange reports 'connected' (lines 436-446) for an
\* instance that holds a local and a remote description
IceConnected(c, pid) ==
    LET x == cl[c].inst[pid]
    IN /\ x.used /\ ~x.destroyed /\ ~x.failing
       /\ x.ice = "new"
       /\ (x.localOffer /\ x.answer # <<>>) \/ (~x.localOffer /\ x.remoteTag # <<>>)
       /\ cl' = [cl EXCEPT ![c].inst[pid].ice = "connected",
                           ![c].status[x.remote] = "connected",
                           ![c].failed[x.remote] = FALSE]
       /\ UNCHANGED dirVars

NextClient ==
    \/ SocketConnect("A")
    \/ JoinRoom("A")
    \/ \E m \in EnvEvents, g \in {"error", "rollback"} : Deliver("A", m, g)
    \/ \E p \in PeerIds : PeerError("A", p)
    \/ \E p \in PeerIds : PeerClose("A", p)
    \/ \E p \in PeerIds : IceConnected("A", p)

SpecClient == Init /\ [][NextClient]_vars

\* two participants joining one room, each attempt with or without a room id,
\* permissions and media
NextJoin ==
    \/ \E c \in Clients : MeshConnect(c)
    \/ \E c \in Clients, r \in {NoRoom, Room}, permOk, mediaOk \in BOOLEAN :
          JoinAttempt(c, "broadcast", r, permOk, mediaOk)
    \/ \E c \in Clients, g \in {"error", "rollback"} : Handle(c, g)
    \/ \E c \in Clients, p \in PeerIds : DelayFire(c, p)
    \/ \E c \in Clients, p \in PeerIds : DebounceFire(c, p)
    \/ \E c, d \in Clients, p, q \in PeerIds : TransportConnect(c, p, d, q)

SpecJoin == Init /\ [][NextJoin]_vars

\* one participant and its environment, when constructing a connection can fail
NextThrow ==
    \/ SocketConnect("A")
    \/ JoinRoom("A")
    \/ \E m \in EnvEvents, g \in {"error", "rollback"} : Deliver("A", m, g)
    \/ \E p \in PeerIds : PeerError("A", p)
    \/ \E p \in PeerIds : PeerErrorThrowing("A", p)
    \/ \E p \in PeerIds : PeerClose("A", p)
    \/ \E p \in PeerIds : IceConnected("A", p)

SpecThrow == Init /\ [][NextThrow]_vars

\* two connected participants, one of which starts sharing its screen
NextShare ==
    \/ \E c \in Clients : MeshConnect(c)
    \/ \E c \in Clients : MeshJoin(c)
    \/ \E c \in Clients, g \in {"error", "rollback"} : Handle(c, g)
    \/ \E c \in Clients, p \in PeerIds : DelayFire(c, p)
    \/ \E c \in Clients, p \in PeerIds : DebounceFire(c, p)
    \/ \E c \in Clients, p \in PeerIds : PeerError(c, p)
    \/ \E c, d \in Clients, p, q \in PeerIds : TransportConnect(c, p, d, q)
    \/ \E c \in Clients, p \in PeerIds : RemoteGone(c, p)
    \/ \E c \in Clients : ToggleScreenShare(c)

SpecShare == Init /\ [][NextShare]_vars

\* two participants in one room; participant A switches between camera and
\* screen share, up to the 'close' events of the instances destroyed on the way
NextSwitch ==
    \/ \E c \in Clients : MeshConnect(c)
    \/ \E c \in Clients : MeshJoin(c)
    \/ \E c \in Clients, g \in {"error", "rollback"} : Handle(c, g)
    \/ \E c \in Clients, p \in PeerIds : DelayFire(c, p)
    \/ \E c \in Clients, p \in PeerIds : DebounceFire(c, p)
    \/ \E c, d \in Clients, p, q \in PeerIds : TransportConnect(c, p, d, q)
    \/ ToggleScreenShare("A")
    \/ RevertToCamera("A")

SpecSwitch == Init /\ [][NextSwitch]_vars

\* two participants in one room; participant A mutes and unmutes its camera
\* and its microphone
NextMute ==
    \/ \E c \in Clients : MeshConnect(c)
    \/ \E c \in Clients : MeshJoin(c)
    \/ \E c \in Clients, g \in {"error", "rollback"} : Handle(c, g)
    \/ \E c \in Clients, p \in PeerIds : DelayFire(c, p)
    \/ \E c \in Clients, p \in PeerIds : DebounceFire(c, p)
    \/ \E c, d \in Clients, p, q \in PeerIds : TransportConnect(c, p, d, q)
    \/ ToggleVideo("A")
    \/ ToggleAudio("A")

SpecMute == Init /\ [][NextMute]_vars

NextDir ==
    \/ DirConnect
    \/ \E s \in SocketIds, r \in RoomIds : DirJoinRoom(s, r, s)
    \/ \E s \in SocketIds, k \in SigKinds, to \in SocketIds \cup RoomIds :
          DirSignal(s, k, to, Offer("A", 1))
    \/ \E s \in SocketIds : DirDisconnect(s)

SpecDir == Init /\ [][NextDir]_vars

\* any socket driving the relay of part_000 with any userId argument
NextDirAny ==
    \/ DirConnect
    \/ \E s \in SocketIds, r \in RoomIds, u \in 1..MaxDirSockets : DirJoinRoom(s, r, u)
    \/ \E s \in SocketIds, k \in SigKinds, to \in SocketIds \cup RoomIds :
          DirSignal(s, k, to, Offer("A", 1))
    \/ \E s \in SocketIds : DirDisconnect(s)

SpecDirAny == Init /\ [][NextDirAny]_vars

\* the relay of part_000 when a join-room may carry an empty room id
NextDirEmpty ==
    \/ DirConnect
    \/ \E s \in SocketIds, r \in {NoRoom, Room} : DirJoinRoom(s, r, s)
    \/ \E s \in SocketIds, k \in SigKinds, to \in SocketIds \cup {NoRoom, Room} :
          DirSignal(s, k, to, Offer("A", 1))
    \/ \E s \in SocketIds : DirDisconnect(s)

SpecDirEmpty == Init /\ [][NextDirEmpty]_vars

\* any socket driving the relay of server.js
NextDirB ==
    \/ DirConnect
    \/ \E s \in SocketIds, r \in RoomIds : DirJoinRoomB(s, r, s)
    \/ \E s \in SocketIds, k \in SigKinds, to \in SocketIds \cup RoomIds, pl \in DirPayloads :
          DirSignalB(s, k, to, pl)
    \/ \E s \in SocketIds : DirDisconnectB(s)

SpecDirB == Init /\ [][NextDirB]_vars

\* three and more sockets at the relay of server.js, sending plain signals
DirConnectCast == DirConnectUpTo(MaxCastSockets)

NextDirCast ==
    \/ DirConnectCast
    \/ \E s \in SocketIds, r \in RoomIds : DirJoinRoomB(s, r, s)
    \/ \E s \in SocketIds, k \in SigKinds, to \in SocketIds \cup RoomIds :
          DirSignalB(s, k, to, Offer("A", 1))
    \/ \E s \in SocketIds : DirDisconnectB(s)

SpecDirCast == Init /\ [][NextDirCast]_vars

\* C1: after any sequence of join-room, relay and disconnect events, the
\* membership set of every room is exactly the set of participants that
\* joined it and have not disconnected since.
C1_MembershipIsJoinedMinusLeft ==
    \A r \in RoomIds : Members(rooms, r) = joined[r]

\* C2: at every reachable state of a client there is, for every remote
\* participant id, at most one SimplePeer instance that is not destroyed.
C2_OneLivePeerLink ==
    \A c \in Clients, u \in SocketIds : Cardinality(Live(cl[c], u)) <= 1

\* the signals of one type that were handed to an instance through peer.signal
AppliedOf(x, type) == {i \in 1..Len(x.applied) : x.applied[i].type = type}

\* C3: in glare the participant with the larger id ignores the incoming
\* offer: an initiator instance it holds for a remote participant with a
\* smaller id is never handed an offer (the smaller id is the side that yields).
C3_LargerIdIgnoresOffer ==
    \A c \in Clients, p \in PeerIds :
        LET x == cl[c].inst[p]
        IN (x.used /\ x.initiator /\ cl[c].sock # 0 /\ x.remote < cl[c].sock)
              => AppliedOf(x, "offer") = {}

\* C5: when B joins a room that A is already in, B is told the member list
\* and creates its PeerLink for A as responder, on receiving A's offer: no
\* instance the later joiner holds for the earlier one is an initiator.
C5_LaterJoinerIsResponder ==
    \A c, d \in Clients, p \in PeerIds :
        LET y == cl[d].inst[p]
        IN (cl[c].sock # 0 /\ cl[d].sock # 0 /\ cl[c].sock < cl[d].sock
              /\ y.used /\ y.remote = cl[c].sock)
              => ~y.initiator

\* every participant in the room holds a connected PeerLink to every other one
Connected(c, d) ==
    /\ cl[d].sock # 0
    /\ cl[c].peersRef[cl[d].sock] # 0
    /\ cl[c].inst[cl[c].peersRef[cl[d].sock]].ice = "connected"

AllConnected == \A c, d \in Clients : c # d => Connected(c, d)

\* C6: when a participant toggles screen share while all are connected, the
\* PeerLink that replaces each of its PeerLinks carries the new (screen)
\* track, not the previous one.
C6_NewPeerLinkCarriesScreenTrack ==
    [][\A c \in Clients :
          (AllConnected /\ cl[c].localStream = "camera" /\ cl'[c].localStream = "screen")
             => \A u \in SocketIds :
                   cl'[c].peersRef[u] # 0 => cl'[c].inst[cl'[c].peersRef[u]].track = "screen"]_vars

Last(q) == q[Len(q)]

IsPrefix(a, b) == Len(a) <= Len(b) /\ SubSeq(b, 1, Len(a)) = a

LiveInst(x) == x.used /\ ~x.destroyed

\* C7: once a client has handled user-left for a remote id, an ice-candidate
\* that arrives from that id is dropped: no step appends a candidate to the
\* deferred queue of an id that has left.
C7_LateCandidateDropped ==
    [][\A c \in Clients, u \in SocketIds :
          LET q == cl[c].pendingCandidates[u]
              r == cl'[c].pendingCandidates[u]
          IN (u \in cl[c].left /\ Len(r) > Len(q)) => Last(r).type # "candidate"]_vars

\* C8: the deferred queue of a remote id holds the deferred signals in their
\* arrival order, and the PeerLink created next for that id is handed them
\* first and in that order.
C8_DeferredAppliedInArrivalOrder ==
    \A c \in Clients :
        /\ \A u \in SocketIds : cl[c].pendingCandidates[u] = cl[c].heard[u]
        /\ \A p \in PeerIds : LiveInst(cl[c].inst[p])
                                 => IsPrefix(cl[c].inst[p].owed, cl[c].inst[p].applied)

C8_Witness ==
    \E p \in PeerIds :
        LET x == cl["A"].inst[p]
        IN /\ LiveInst(x)
           /\ Len(x.owed) >= 2 /\ x.owed[1] # x.owed[2]
           /\ IsPrefix(x.owed, x.applied)

\* C9: every candidate that arrived from a remote id while the client had no
\* PeerLink for it (and the id has not left) is in the deferred queue, and
\* every deferred candidate was handed to the PeerLink made next for the id.
C9_NoCandidateLost ==
    \A c \in Clients :
        /\ \A u \in SocketIds \ cl[c].left :
              \A i \in 1..Len(cl[c].heard[u]) :
                 cl[c].heard[u][i].type = "candidate"
                    => cl[c].heard[u][i] \in SeqSet(cl[c].pendingCandidates[u])
        /\ \A p \in PeerIds :
              LET x == cl[c].inst[p]
              IN LiveInst(x) =>
                    \A i \in 1..Len(x.owed) :
                       x.owed[i].type = "candidate" => x.owed[i] \in SeqSet(x.applied)

C9_Witness ==
    \E p \in PeerIds :
        LET x == cl["A"].inst[p]
        IN /\ LiveInst(x) /\ ~x.initiator
           /\ x.remote \notin cl["A"].left
           /\ x.owed # <<>> /\ x.owed[1].type = "candidate"
           /\ x.owed[1] \in SeqSet(x.applied)
           /\ AppliedOf(x, "offer") # {}

\* C10: a signal that a connected PeerLink has already been handed (a
\* duplicate answer, an ice-candidate applied before) leaves the state of the
\* PeerLink unchanged when it is delivered again.
C10_DuplicateSignalIdempotent ==
    [][\A c \in Clients, p \in PeerIds :
          LET x == cl[c].inst[p]
              y == cl'[c].inst[p]
          IN (LiveInst(x) /\ x.ice = "connected" /\ LiveInst(y)
                /\ Len(y.applied) = Len(x.applied) + 1
                /\ Last(y.applied) \in SeqSet(x.applied))
                => y = [x EXCEPT !.applied = y.applied]]_vars

\* a step of client c that creates instances is held back because c has used
\* up the MaxPeers instance names
NameBlocked(c) ==
    LET k == cl[c]
    IN \/ k.sock # 0 /\ inbox[k.sock] # <<>> /\ CreatesPeer(k, Head(inbox[k.sock]))
          /\ FreeCount(c, k) = 0
       \/ \E p \in PeerIds :
             LET x == k.inst[p]
             IN /\ x.used
                /\ \/ ~x.destroyed /\ x.failing /\ FreeCount(c, k) < 2 * NeedsPid(k, x.remote)
                   \/ x.closeEvt /\ FreeCount(c, k) + (IF x.sent THEN 0 ELSE 1)
                                      < NeedsPid(k, x.remote)
                   \/ ~x.destroyed /\ x.tmo /\ x.delayed = <<>> /\ x.debounce = <<>>
                        /\ FreeCount(c, k) < NeedsPid(k, x.remote)

\* C4: participants that join the same room and stay, with a relay that
\* delivers every message and a transport that does not fail, eventually
\* all hold a connected PeerLink to each other (stated for the behaviours
\* in which no client runs out of the MaxPeers instance names).
C4_FullMesh == <>(AllConnected \/ \E c \in Clients : NameBlocked(c))

\* ----------------------------------------------------------- relay claims
\* the sockets the handler of the step emitted to (every handler of the relay
\* specifications starts from empty inboxes)
Reached == {x \in SocketIds : inbox[x] # <<>>}

ReachedNext == {x \in SocketIds : inbox'[x] # <<>>}

\* the sockets that share a socket.io room with socket s
RoomMates(s) == {x \in connected \ {s} : adapter[x] \cap adapter[s] # {}}

\* C11: a relayed offer, answer or ice-candidate is delivered to `to` if and
\* only if `to` is a connected participant; otherwise it reaches nobody.
C11_DeliveredIffConnected ==
    [][\A s \in SocketIds, k \in SigKinds, to \in SocketIds \cup RoomIds :
          DirSignal(s, k, to, Offer("A", 1))
             => ReachedNext = (IF to \in connected THEN {to} ELSE {})]_vars

\* C12: the relay delivers an offer, answer or ice-candidate only to
\* participants that are in a room with the sender.
C12_DeliveredToRoomMatesOnly ==
    [][\A s \in SocketIds, k \in SigKinds, to \in SocketIds \cup RoomIds, pl \in DirPayloads :
          DirSignalB(s, k, to, pl) => ReachedNext \subseteq RoomMates(s)]_vars

\* C13: one relayed offer, answer or ice-candidate reaches at most one
\* participant, whatever the value of `to`.
C13_NeverBroadcast ==
    [][\A s \in SocketIds, k \in SigKinds, to \in SocketIds \cup RoomIds :
          DirSignalB(s, k, to, Offer("A", 1)) => Cardinality(ReachedNext) <= 1]_vars

\* ---------------------------------------------------------- client emission

\* C14: every signal an instance hands to debouncedSignal is emitted: while a
\* call is pending on a live instance, the only change to it is its emission
\* (no later call replaces it before it has been sent).
C14_PendingSignalEmitted ==
    [][\A c \in Clients, p \in PeerIds :
          LET x == cl[c].inst[p]
              y == cl'[c].inst[p]
          IN (/\ LiveInst(x) /\ LiveInst(y)
              /\ x.remote = y.remote
              /\ x.debounce # <<>>
              /\ y.debounce # x.debounce) => y.debounce = <<>>]_vars

C16_AnnouncedIdIsSocketId ==
    [][\A s \in SocketIds, r \in RoomIds, u \in 1..MaxDirSockets :
          DirJoinRoom(s, r, u)
             => /\ \A x \in SocketIds \ {s} : \A i \in 1..Len(inbox'[x]) : inbox'[x][i].id = s
                /\ s \in Members(rooms', r)]_vars

\* C17: when a socket disconnects, it is removed from the membership of every
\* room, and no room is left in the `rooms` map with an empty membership.
C17_DisconnectLeavesEveryRoom ==
    [][\A s \in SocketIds :
          DirDisconnect(s)
             => /\ \A r \in RoomIds : s \notin Members(rooms', r)
                /\ \A i \in 1..Len(rooms') : rooms'[i].members # <<>>]_vars

\* C18: when a socket disconnects, user-left is delivered exactly to the
\* sockets that shared a room with it: to each of them and to nobody else.
C18_UserLeftToRoomMates ==
    [][\A s \in SocketIds :
          DirDisconnectB(s)
             => /\ ReachedNext = RoomMates(s)
                /\ \A x \in ReachedNext :
                      inbox'[x] = <<[ev |-> "user-left", id |-> s, data |-> <<>>]>>]_vars

\* C19: a participant is a member of at most one room at any time.
C19_AtMostOneRoom ==
    \A s \in SocketIds :
        /\ Cardinality({r \in RoomIds : s \in Members(rooms, r)}) <= 1
        /\ Cardinality(adapter[s]) <= 1

\* C20: when socket s joins room r, user-joined(s) is delivered to every other
\* current member of r (a connected socket that joined r) and to nobody else,
\* and s is sent user-joined for exactly the other current members of r.
C20_JoinAnnouncements ==
    [][\A s \in SocketIds, r \in RoomIds :
          DirJoinRoom(s, r, s)
             => LET others == joined[r] \ {s}
                IN /\ ReachedNext \ {s} = others
                   /\ \A x \in others :
                         inbox'[x] = <<[ev |-> "user-joined", id |-> s, data |-> <<>>]>>
                   /\ \A i \in 1..Len(inbox'[s]) : inbox'[s][i].ev = "user-joined"
                   /\ {inbox'[s][i].id : i \in 1..Len(inbox'[s])} = others]_vars

\* C21: join-room is idempotent: in every state the relay reaches, a join-room
\* by a socket that is already a member of the room leaves the rooms map and
\* the adapter as they are (the socket appears once, no other room or member
\* changes).
C21_JoinIdempotent ==
    \A s \in connected, r \in RoomIds :
        (s \in Members(rooms, r) /\ r \in adapter[s])
           => LET d == OnJoinRoom(DirState0, s, r, s)
              IN /\ d.rooms = rooms
                 /\ d.adapter = adapter
                 /\ d.connected = connected

\* a join-room has just been handled for a room that has two members
C21_Witness ==
    \E s \in connected, r \in RoomIds :
        /\ s \in Members(rooms, r) /\ r \in adapter[s]
        /\ Cardinality(Members(rooms, r)) >= 2
        /\ inbox[s] # <<>> /\ inbox[s][1].ev = "user-joined"

\* C22: a join-room with an empty room id is a no-op on the relay: the socket
\* joins no room, the rooms map is unchanged and no event reaches anyone.
C22_EmptyRoomIdIsNoOp ==
    [][\A s \in SocketIds :
          DirJoinRoom(s, NoRoom, s)
             => /\ adapter' = adapter
                /\ rooms' = rooms
                /\ ReachedNext = {}]_vars

\* ------------------------------------------------------------ recovery

\* a recovery step of client c replaces the PeerLink it holds for remote id r
Recreated(c, r) ==
    /\ \E p \in PeerIds : PeerError(c, p) \/ PeerClose(c, p) \/ Timeout(c, p)
    /\ cl[c].peersRef[r] # 0
    /\ cl'[c].peersRef[r] \notin {0, cl[c].peersRef[r]}

\* C23: recovery is bounded: for every client and remote id, from some point
\* on no 'error', 'close' or timeout step destroys and recreates the PeerLink
\* for that remote id again.
C23_RecoveryBounded ==
    \A c \in Clients, r \in SocketIds : <>[][~Recreated(c, r)]_vars

\* ------------------------------------------------------------ local media

\* C24: muting or unmuting video or audio only flips the enabled flag of the
\* local track: the step destroys and creates no PeerLink, changes no
\* PeerLink's state and leaves no signal waiting to be sent.
C24_MuteIsLocal ==
    [][\A c \in Clients :
          (ToggleVideo(c) \/ ToggleAudio(c))
             => /\ cl'[c].inst = cl[c].inst
                /\ cl'[c].peersRef = cl[c].peersRef
                /\ inbox' = inbox]_vars

C26_PeerLinkBuiltFromCurrentStream ==
    [][\A c \in Clients, u \in SocketIds :
          LET q == cl'[c].peersRef[u]
          IN (q # 0 /\ q # cl[c].peersRef[u])
                => /\ cl'[c].inst[q].stream = cl'[c].localStream
                   /\ cl'[c].inst[q].track = cl'[c].localStream]_vars

\* C27: after a client has handled user-left(R) it holds no PeerLink for R
\* and no deferred signals for R, whether or not it held a PeerLink for R
\* when the event arrived.
C27_UserLeftClearsPeerAndQueue ==
    [][\A c \in Clients, u \in SocketIds, g \in {"error", "rollback"} :
          Deliver(c, [ev |-> "user-left", id |-> u, data |-> <<>>], g)
             => /\ cl'[c].peersRef[u] = 0
                /\ cl'[c].pendingCandidates[u] = <<>>]_vars

\* ------------------------------------------------------------ reconnection

\* C28: when the socket of a participant that is in a room connects again,
\* the participant is announced to the room under its new id, every PeerLink
\* it held is destroyed and replaced by a new initiator, and no PeerLink
\* created before the reconnect is live afterwards.
C28_ReconnectRebuildsPeerLinks ==
    [][\A c \in Clients :
          (SocketConnect(c) /\ cl[c].inRoom)
             => /\ Room \in adapter'[cl'[c].sock]
                /\ \A u \in SocketIds :
                      LET p == cl[c].peersRef[u]
                          q == cl'[c].peersRef[u]
                      IN p # 0 => /\ q \notin {0, p}
                                  /\ LiveInst(cl'[c].inst[q])
                                  /\ cl'[c].inst[q].initiator
                /\ \A p \in PeerIds :
                      LiveInst(cl[c].inst[p]) => cl'[c].inst[p].destroyed]_vars

\* ------------------------------------------------------------ roles

\* C29: the role of a PeerLink never changes: no offer is handed to an
\* instance created as initiator and no answer to an instance created as
\* responder.
C29_RoleFixed ==
    \A c \in Clients, p \in PeerIds :
        LET x == cl[c].inst[p]
        IN LiveInst(x)
              => \A i \in 1..Len(x.applied) :
                    /\ x.initiator => x.applied[i].type # "offer"
                    /\ ~x.initiator => x.applied[i].type # "answer"

\* ------------------------------------------------------------ containment

\* client c holds after the step, for every remote id but r, the PeerLink,
\* the state of that PeerLink and the deferred queue it held before
OthersUnchanged(c, r) ==
    \A w \in SocketIds \ {r} :
        /\ cl'[c].peersRef[w] = cl[c].peersRef[w]
        /\ cl'[c].pendingCandidates[w] = cl[c].pendingCandidates[w]
        /\ cl[c].peersRef[w] # 0
              => cl'[c].inst[cl[c].peersRef[w]] = cl[c].inst[cl[c].peersRef[w]]

C31_DestroyedInstanceIsInert ==
    [][\A c \in Clients, p \in PeerIds :
          (cl[c].inst[p].destroyed /\ PeerClose(c, p))
             => LET r == cl[c].inst[p].remote
                    q == cl[c].peersRef[r]
                IN /\ cl'[c].peersRef[r] = q
                   /\ q # 0 => LiveInst(cl'[c].inst[q])]_vars

\* ------------------------------------------------------------ peer tables

\* C32: renegotiation is an atomic replace: once a client holds a PeerLink for
\* remote id R, the only step after which it holds none is the handling of
\* user-left(R), also when the construction of a replacement fails.
C32_ReplaceIsAtomic ==
    [][\A c \in Clients, u \in SocketIds :
          (cl[c].peersRef[u] # 0 /\ cl'[c].peersRef[u] = 0)
             => \E g \in {"error", "rollback"} :
                   Deliver(c, [ev |-> "user-left", id |-> u, data |-> <<>>], g)]_vars

\* ------------------------------------------------------------ joining

\* C33: when the permission check fails or getUserMedia rejects, joinRoom
\* reaches the relay with nothing and leaves inRoom false: the participant is
\* in no room, nobody is told of it, and its socket stays as it is.
C33_NoJoinWithoutMedia ==
    [][\A c \in Clients, permOk, mediaOk \in BOOLEAN :
          (JoinAttempt(c, "broadcast", Room, permOk, mediaOk) /\ ~(permOk /\ mediaOk))
             => /\ ~cl'[c].inRoom
                /\ cl'[c].sock = cl[c].sock
                /\ cl'[c].localStream = cl[c].localStream
                /\ adapter' = adapter /\ rooms' = rooms
                /\ inbox' = inbox /\ connected' = connected]_vars

\* a participant whose latest join attempt failed for lack of media, next to
\* one that is in the room
C33_Witness ==
    \E c, d \in Clients :
        /\ cl[c].lastAlert \in {"permissions", "media"}
        /\ ~cl[c].inRoom /\ cl[c].sock # 0 /\ adapter[cl[c].sock] = {}
        /\ cl[d].inRoom /\ cl[d].sock # 0

\* C34: a remote id is shown as connected only while the PeerLink the table
\* holds for it has had its transport connected ('connect' or ICE
\* 'connected' of that same instance); applying an answer alone does not make
\* the status connected.
C34_ConnectedOnlyAfterTransport ==
    \A c \in Clients, u \in SocketIds :
        cl[c].status[u] = "connected"
            => /\ cl[c].peersRef[u] # 0
               /\ cl[c].inst[cl[c].peersRef[u]].ice = "connected"

\* C35: a failure is reported once per affected remote peer: the 'error'
\* handler does not set the status of a remote id to 'failed' again while the
\* 'failed' it reported earlier has been followed by neither 'connected' nor
\* the peer's user-left, that is, not once per retry.
C35_FailedReportedOnce ==
    [][\A c \in Clients, p \in PeerIds :
          (PeerError(c, p) \/ PeerErrorThrowing(c, p))
              => ~cl[c].failed[cl[c].inst[p].remote]]_vars

\* C36: joining a room does not replace the participant's relay connection:
\* after joinRoom has emitted join-room the socket it used is still the
\* participant's socket and is still connected to the relay.
C36_JoinKeepsSocket ==
    [][\A c \in Clients :
          JoinRoom(c) => /\ cl'[c].sock = cl[c].sock
                         /\ cl[c].sock \in connected']_vars

\* C37: the signals of one PeerLink are emitted in the order in which they
\* were generated: when the offer of an instance is emitted, nothing that the
\* instance generated after it (a candidate) has been emitted before.
C37_OfferEmittedFirst ==
    [][\A c \in Clients, p \in PeerIds :
          (DebounceFire(c, p) /\ cl[c].inst[p].debounce[1].type = "offer")
              => ~cl[c].inst[p].sent]_vars

\* C38: a deferred answer is handed only to the PeerLink whose offer it
\* answers: among the signals that were queued when an instance was created,
\* an answer goes to an initiator and carries the tag of that instance's offer.
C38_DeferredAnswerMatches ==
    \A c \in Clients, p \in PeerIds :
        LET x == cl[c].inst[p]
        IN (x.used /\ ~x.destroyed /\ IsPrefix(x.owed, x.applied))
              => \A i \in 1..Len(x.owed) :
                    x.owed[i].type = "answer"
                       => x.initiator /\ x.owed[i].tag = <<c, p>>

\* C39: no received offer is lost: when the handler of an offer from R
\* returns, the offer has been handed to a live PeerLink for R or it is in
\* the queue of deferred signals for R.
C39_OfferAppliedOrDeferred ==
    [][\A c \in Clients :
          (/\ cl[c].sock # 0
           /\ inbox[cl[c].sock] # <<>>
           /\ Head(inbox[cl[c].sock]).ev = "offer"
           /\ inbox'[cl[c].sock] = Tail(inbox[cl[c].sock]))
             => LET m == Head(inbox[cl[c].sock])
                    k == cl'[c]
                    pid == k.peersRef[m.id]
                IN \/ /\ pid # 0
                      /\ ~k.inst[pid].destroyed
                      /\ m.data[1] \in SeqSet(k.inst[pid].applied)
                   \/ m.data[1] \in SeqSet(k.pendingCandidates[m.id])]_vars

\* C40: after every handler and every renegotiatePeer call the two peer
\* tables agree: peersRef and the rendered peers have an entry for the same
\* remote ids, and every entry is a PeerLink that was constructed.
C40_TablesAgree ==
    \A c \in Clients, u \in SocketIds :
        /\ (cl[c].peersRef[u] # 0) <=> (cl[c].peers[u] # 0)
        /\ cl[c].peersRef[u] # 0 => cl[c].inst[cl[c].peersRef[u]].used
        /\ cl[c].peers[u] # 0 => cl[c].inst[cl[c].peers[u]].used

\* a PeerLink failed and renegotiatePeer replaced it: both tables hold the
\* replacement and the failed instance is destroyed
C40_Witness ==
    \E c \in Clients, u \in SocketIds :
        /\ cl[c].peersRef[u] # 0
        /\ cl[c].peers[u] = cl[c].peersRef[u]
        /\ cl[c].failed[u]
        /\ \E p \in PeerIds :
              /\ p # cl[c].peersRef[u]
              /\ cl[c].inst[p].used /\ cl[c].inst[p].destroyed
              /\ cl[c].inst[p].remote = u

====
